---- MODULE Spec2Model ----
(***************************************************************************)
(* State-machine model of linuxcam's daemon (src/src/linuxcam/daemon.py):  *)
(* the inotify watcher thread (BlurDaemon._inotify_watcher), the main     *)
(* frame loop (BlurDaemon.run), the external consumers of the virtual     *)
(* camera device and the configuration file (src/src/linuxcam/config.py). *)
(*                                                                         *)
(* Two threads share has_consumers, consumer_event and stop_event.  Every *)
(* write of a shared attribute, and every read of the inotify queue, of   *)
(* /proc and of the configuration file, is one step of its thread, so the *)
(* interleavings the interpreter and the other processes allow are        *)
(* explored.  Work on thread-local state (segmentation, cap, blur_active, *)
(* the frame) is folded into the step that follows the access deciding    *)
(* it.                                                                     *)
(***************************************************************************)
EXTENDS Integers, Sequences, FiniteSets, TLC

\* ---------------------------------------------------------------- bounds
\* External processes that may hold the output device open at once.
MaxConsumers == 2
\* Unread notifications in the kernel queue beyond which another process
\* waits before it opens or closes the device.
MaxQueue == 1
\* Modification time of the configuration file from which on no other
\* process writes it any more: every write happens below it, so that it may
\* leave the same time or a newer one.
MaxMtime == 2
\* "blurcam config" commands run while the daemon does.
MaxCommands == 1
\* Largest process id of a process table drawn for a single scan, and the
\* most descriptors one of its processes holds.
MaxPid == 3
MaxFds == 2
\* Largest magnitude of a blur value given to "blurcam config --blur" or
\* written into the file by hand.
MaxBlur == 4

VARIABLES
    \* environment
    deviceExists,    \* os.path.exists(self.device) at run()
    nOpen,           \* processes other than the daemon holding the device
    proc,            \* /proc: the entries os.listdir and os.readlink find
    queue,           \* inotify events not yet returned by inotify.read
    cfgFile,         \* content of CONFIG_FILE
    cfgMtime,        \* st_mtime CONFIG_FILE got at its latest write (0: never)
    cli,             \* the "blurcam config" command in progress, if any
    \* BlurDaemon attributes
    has_consumers,
    consumer_event,
    stop_event,
    blur_active,
    config,          \* self.config
    \* watcher thread
    wpc,             \* position in _inotify_watcher
    events,          \* the list inotify.read returned, rest to handle
    scanAt,          \* _get_consumer_count: entry of /proc to examine next
    count,           \* _get_consumer_count: holders counted so far
    consumers,       \* result of the latest _get_consumer_count(), -1 before
    \* main thread (locals of run)
    pc,              \* position in run
    segmentation,    \* 0 is None, otherwise the identity of the instance
    cap,             \* "None", "opened", or "closed" (object, not opened)
    black_frame,
    config_mtime,
    blur_strength,
    threshold,
    rc,              \* value run returned (-1 while it has not)
    \* what the current iteration of the main loop has done so far
    sent,            \* frames passed to vcam.send
    frame,           \* the frame passed to vcam.send
    transition,      \* "none", "toActive", "toIdle"
    opened,          \* result of the capture open: "none", "ok", "failed"
    readRes,         \* result of cap.read: "none", "ok", "failed"
    reloaded,        \* the configuration was reloaded
    last_open        \* result of the latest capture open of the run

envVars == <<deviceExists, nOpen, proc, queue, cfgFile, cfgMtime, cli>>
sharedVars == <<has_consumers, consumer_event, stop_event>>
watcherVars == <<wpc, events, scanAt, count, consumers>>
configVars == <<config, config_mtime, blur_strength, threshold>>
resourceVars == <<blur_active, segmentation, cap>>
tickVars == <<sent, frame, transition, opened, readRes, reloaded>>
vars == <<envVars, sharedVars, watcherVars, configVars, resourceVars,
          tickVars, pc, black_frame, rc, last_open>>

\* ------------------------------------------------------- configuration
\* config.py DEFAULT_CONFIG.  threshold is kept in hundredths (0.5 is 50).
DEFAULT_CONFIG ==
    [blur |-> 35, threshold |-> 50, input |-> 0, output |-> "/dev/video10",
     width |-> 640, height |-> 480, fps |-> 30]

\* JSON objects a save may leave in the file (update_config writes the merged
\* record; a hand-edited file may hold any subset of the keys, and an even
\* blur).
SavedChoices ==
    { [blur |-> 20, threshold |-> 70, width |-> 320] }

\* Content of the configuration file: no file, a JSON object, text json.load
\* rejects (also a file caught mid-write), or JSON that is not an object.
Absent == [kind |-> "absent"]
Corrupt == [kind |-> "corrupt"]
NotDict == [kind |-> "notdict"]
Json(saved) == [kind |-> "json", saved |-> saved]
FileContents == {Corrupt, NotDict} \cup {Json(s) : s \in SavedChoices}

\* Faulty variant: the saved record is ignored.
Mut_KeepDefaults(defaults, saved) == defaults
\* {**DEFAULT_CONFIG, **saved}
Merge(defaults, saved) ==
    [k \in DOMAIN defaults \cup DOMAIN saved |->
        IF k \in DOMAIN saved THEN saved[k] ELSE defaults[k]]

\* load_config: the merged record, the defaults when the file is missing or
\* json.load raises JSONDecodeError; unpacking a non-mapping raises TypeError,
\* which load_config does not catch.
load_config(file) ==
    CASE file.kind = "json" -> [raised |-> FALSE, value |-> Merge(DEFAULT_CONFIG, file.saved)]
      [] file.kind = "notdict" -> [raised |-> TRUE, value |-> DEFAULT_CONFIG]
      [] OTHER -> [raised |-> FALSE, value |-> DEFAULT_CONFIG]

\* get_config_mtime, "if config_path.exists():" the file is there.
ConfigExists(file) == file.kind # "absent"
\* get_config_mtime, "return config_path.stat().st_mtime": stat raises
\* FileNotFoundError when the file has been removed since exists() found it.
get_config_mtime(file, mtime) ==
    IF ConfigExists(file) THEN [raised |-> FALSE, value |-> mtime]
    ELSE [raised |-> TRUE, value |-> 0]

\* Faulty variant: the blur strength is not taken from the record loaded.
Mut_BlurFromDefaults(b) == DEFAULT_CONFIG.blur
\* run: "if blur_strength % 2 == 0: blur_strength += 1"
OddBlur(b) == IF b % 2 = 0 THEN b + 1 ELSE b

\* np.zeros((self.height, self.width, 3)): the filler frame.
BlackFrame(w, h) == [kind |-> "black", width |-> w, height |-> h]
\* cvtColor(apply_background_blur(frame, get_mask(frame, threshold), blur)).
BlurredFrame(b, t) == [kind |-> "blurred", blur |-> b, threshold |-> t]
NoFrame == [kind |-> "none"]

\* "blurcam config" by another process: no command yet, or the latest one,
\* which has opened the file for writing and is to write record ("save") or
\* has written it ("done"); begun counts the commands begun so far.
NoCommand == [kind |-> "none", begun |-> 0]
Command(kind, record, begun) ==
    [kind |-> kind, config |-> record, begun |-> begun]

\* ------------------------------------------------------- process table
\* os.getpid() of the daemon, self.device, a file other than the device,
\* and a descriptor whose os.readlink raises OSError.
MyPid == 1
Device == "/dev/video10"
OtherFile == "/dev/video0"
NoLink == "OSError"

\* One name in /proc: a process (the name is its pid, isdigit() holds) or
\* another name such as "self"; whether os.listdir of its fd directory
\* succeeds; and the targets os.readlink gives for its descriptors.
ProcEntry(digit, pid, listable, fds) ==
    [digit |-> digit, pid |-> pid, listable |-> listable, fds |-> fds]

\* Faulty variant: every descriptor on the device is counted.
RECURSIVE Mut_CountEveryHandle(_, _)
Mut_CountEveryHandle(fds, device) ==
    IF fds = <<>> THEN 0
    ELSE (IF Head(fds) = device THEN 1 ELSE 0)
         + Mut_CountEveryHandle(Tail(fds), device)
\* "for fd in os.listdir(fd_dir):" with "count += 1; break" at the first
\* descriptor whose target is the device; a readlink that raises is passed.
RECURSIVE HandlesCounted(_, _)
HandlesCounted(fds, device) ==
    IF fds = <<>> THEN 0
    ELSE IF Head(fds) # NoLink /\ Head(fds) = device THEN 1
         ELSE HandlesCounted(Tail(fds), device)

\* "if not pid_dir.isdigit(): continue" and "if pid == my_pid: continue"
Skipped(e, my_pid) == ~e.digit \/ e.pid = my_pid

\* What one name of the listing adds to count: nothing when it is skipped or
\* its fd directory cannot be listed (the inner "except OSError: pass").
EntryCount(e, my_pid, device) ==
    IF Skipped(e, my_pid) \/ ~e.listable THEN 0
    ELSE HandlesCounted(e.fds, device)

\* "for pid_dir in os.listdir('/proc'):" the first entry from i on whose fd
\* directory the loop goes on to list, Len(entries) + 1 when there is none.
RECURSIVE NextAt(_, _, _)
NextAt(entries, i, my_pid) ==
    IF i > Len(entries) THEN i
    ELSE IF Skipped(entries[i], my_pid) THEN NextAt(entries, i + 1, my_pid)
         ELSE i

\* The daemon's own process, holding the device or not, and the "self" link
\* to it; an external consumer of the device.
OwnEntry(holds) ==
    ProcEntry(TRUE, MyPid, TRUE, IF holds THEN <<Device>> ELSE <<>>)
SelfLink(holds) ==
    ProcEntry(FALSE, 0, TRUE, IF holds THEN <<Device>> ELSE <<>>)
ConsumerEntry(pid) == ProcEntry(TRUE, pid, TRUE, <<Device>>)
\* A process that does not hold the device.
OtherEntry(pid) == ProcEntry(TRUE, pid, TRUE, <<>>)

\* The processes that may open the device: a video application each.  The
\* entry of process p is entry p of the listing, as /proc lists pids in
\* ascending order.
ConsumerPids == (MyPid + 1)..(MyPid + MaxConsumers)

\* /proc with the daemon and the video applications, those of the set
\* holders holding the device.
ProcTable(holds, holders) ==
    <<OwnEntry(holds)>>
        \o [i \in 1..MaxConsumers |->
               IF MyPid + i \in holders THEN ConsumerEntry(MyPid + i)
               ELSE OtherEntry(MyPid + i)]
        \o <<SelfLink(holds)>>

\* The table after the daemon has opened (closed) the device itself.
OwnHandle(table, holds) ==
    [table EXCEPT ![1] = OwnEntry(holds), ![Len(table)] = SelfLink(holds)]

\* The process tables drawn for a single scan: the daemon, every other pid
\* up to MaxPid with any descriptors or an unreadable fd directory, "self".
FdTargets == {Device, OtherFile, NoLink}
FdLists == UNION {[1..k -> FdTargets] : k \in 0..MaxFds}
Listings ==
    {[listable |-> FALSE, fds |-> <<>>]}
        \cup {[listable |-> TRUE, fds |-> f] : f \in FdLists}
ProcTables ==
    {<<OwnEntry(holds)>>
        \o [i \in 1..(MaxPid - MyPid) |->
               ProcEntry(TRUE, MyPid + i, others[MyPid + i].listable,
                         others[MyPid + i].fds)]
        \o <<SelfLink(holds)>> :
            holds \in BOOLEAN, others \in [(MyPid + 1)..MaxPid -> Listings]}

\* ------------------------------------------------------------- initial
\* The daemon after BlurDaemon.__init__ on a system with no configuration
\* file yet: flags cleared, self.config loaded.
InitDaemon ==
    /\ queue = <<>>
    /\ has_consumers = FALSE
    /\ consumer_event = FALSE
    /\ stop_event = FALSE
    /\ blur_active = FALSE
    /\ config = load_config(cfgFile).value
    /\ wpc = "unstarted"
    /\ events = <<>>
    /\ scanAt = 0
    /\ count = 0
    /\ consumers = -1
    /\ pc = "start"
    /\ segmentation = 0
    /\ cap = "None"
    /\ black_frame = NoFrame
    /\ config_mtime = 0
    /\ blur_strength = 0
    /\ threshold = 0
    /\ rc = -1
    /\ sent = 0
    /\ frame = NoFrame
    /\ transition = "none"
    /\ opened = "none"
    /\ readRes = "none"
    /\ reloaded = FALSE
    /\ last_open = "none"

\* The processes that hold the device open, the daemon apart: what
\* _get_consumer_count is there to count.
Holders(table) ==
    Cardinality({i \in 1..Len(table) :
        /\ table[i].digit
        /\ table[i].pid # MyPid
        /\ table[i].listable
        /\ \E j \in 1..Len(table[i].fds) : table[i].fds[j] = Device})

\* The daemon constructed with the output device there or not, no consumer.
Init ==
    /\ deviceExists \in BOOLEAN
    /\ nOpen = 0
    /\ proc = ProcTable(FALSE, {})
    /\ cfgFile = Absent
    /\ cfgMtime = 0
    /\ cli = NoCommand
    /\ InitDaemon

\* The daemon constructed on a system with any of the process tables.
InitCount ==
    /\ deviceExists = TRUE
    /\ proc \in ProcTables
    /\ nOpen = Holders(proc)
    /\ cfgFile = Absent
    /\ cfgMtime = 0
    /\ cli = NoCommand
    /\ InitDaemon

\* The integers a blur setting is drawn from.
BlurValues == (0 - MaxBlur)..MaxBlur

\* The daemon constructed with no consumer on a system whose configuration
\* file is missing or holds any integer blur.
InitBlur ==
    /\ deviceExists = TRUE
    /\ nOpen = 0
    /\ proc = ProcTable(FALSE, {})
    /\ cfgFile \in {Absent} \cup {Json([blur |-> b]) : b \in BlurValues}
    /\ cfgMtime = IF cfgFile = Absent THEN 0 ELSE 1
    /\ cli = NoCommand
    /\ InitDaemon

\* --------------------------------------------------------- environment
\* The watch delivers notifications from add_watch until inotify.close().
Watching == wpc \in {"read", "in_read", "sleep", "scan", "set"}

\* run has not ended: it has neither returned nor been left by an
\* exception.
Running == pc \notin {"returned", "raised", "exited"}

\* The watcher, a daemon thread, runs as long as the process does.
Alive == pc # "exited"

\* The main loop is inside an iteration or between two.
InLoop ==
    pc \in {"top", "clear", "read1", "read2", "config", "stat", "load",
            "frame", "sleep"}

\* The events of the watch are kept as the watcher's two tests tell them
\* apart: "OPEN" (flags.OPEN), and "CLOSE" for both flags.CLOSE_NOWRITE, the
\* close of a descriptor opened for reading only, and flags.CLOSE_WRITE, the
\* close of one opened for writing.  A close raised now is of the same kind
\* as an unread one or of the other; an OPEN is like every other OPEN.
SameKind(ev) == IF ev = "CLOSE" THEN BOOLEAN ELSE {TRUE}

\* The queue of the inotify instance after the kernel raises ev on the
\* watched device: an event identical to the last unread one (same being
\* whether it is of the same kind) is merged with it, any other is appended.
Raised(q, ev, same) ==
    IF q # <<>> /\ q[Len(q)] = ev /\ same THEN q ELSE Append(q, ev)
\* The same while there may be no watch (watch_flags: OPEN and both closes).
Notified(q, ev, same) == IF Watching THEN Raised(q, ev, same) ELSE q

\* One of the first maxOpen video applications opens the output device
\* (IN_OPEN, for reading only or for writing too), with at most maxQueued
\* unread notifications.
ConsumerOpen(maxOpen, maxQueued) ==
    /\ Alive
    /\ deviceExists
    /\ nOpen < maxOpen
    /\ Len(Notified(queue, "OPEN", TRUE)) <= maxQueued
    /\ \E p \in (MyPid + 1)..(MyPid + maxOpen) :
        /\ proc[p] = OtherEntry(p)
        /\ proc' = [proc EXCEPT ![p] = ConsumerEntry(p)]
    /\ nOpen' = nOpen + 1
    /\ queue' = Notified(queue, "OPEN", TRUE)
    /\ UNCHANGED <<deviceExists, cfgFile, cfgMtime, cli, sharedVars,
                   watcherVars, configVars, resourceVars, tickVars, pc,
                   black_frame, rc, last_open>>

\* A process holding the output device closes it.  The kernel raises
\* IN_CLOSE_NOWRITE when the process had opened the device for reading only
\* and IN_CLOSE_WRITE otherwise, which the daemon sees in nothing but the
\* merging of the event with an unread close.
ConsumerClose(maxQueued) ==
    /\ Alive
    /\ nOpen > 0
    /\ \E p \in ConsumerPids :
        /\ proc[p] = ConsumerEntry(p)
        /\ proc' = [proc EXCEPT ![p] = OtherEntry(p)]
    /\ nOpen' = nOpen - 1
    /\ \E same \in SameKind("CLOSE") :
        /\ Len(Notified(queue, "CLOSE", same)) <= maxQueued
        /\ queue' = Notified(queue, "CLOSE", same)
    /\ UNCHANGED <<deviceExists, cfgFile, cfgMtime, cli, sharedVars,
                   watcherVars, configVars, resourceVars, tickVars, pc,
                   black_frame, rc, last_open>>

\* The modification times a write to a file last written at mtime may
\* leave: a newer one or, within the granularity of the file system's
\* timestamps, the same; a file never written gets its first.
WriteTimes(mtime) == {t \in {mtime, mtime + 1} : t >= 1}

\* One write to the configuration file by another process, the open(path,
\* "w") or the json.dump of a save_config or any other write: new content
\* (the file is empty or cut short between the two) and a modification time.
SaveConfig ==
    /\ Running
    /\ cfgMtime < MaxMtime
    /\ \E content \in FileContents, mtime \in WriteTimes(cfgMtime) :
        /\ <<content, mtime>> # <<cfgFile, cfgMtime>>
        /\ cfgFile' = content
        /\ cfgMtime' = mtime
    /\ UNCHANGED <<deviceExists, nOpen, proc, queue, cli, sharedVars,
                   watcherVars, configVars, resourceVars, tickVars, pc,
                   black_frame, rc, last_open>>

\* cmd_uninstall by another process while a daemon started by hand runs:
\* "if config_dir.exists(): shutil.rmtree(config_dir)" removes the file, and
\* config_path.exists() is false until it is written again, at a time that is
\* not earlier than its latest write.
Uninstall ==
    /\ Running
    /\ cfgFile # Absent
    /\ cfgFile' = Absent
    /\ UNCHANGED <<deviceExists, nOpen, proc, queue, cfgMtime, cli,
                   sharedVars, watcherVars, configVars, resourceVars,
                   tickVars, pc, black_frame, rc, last_open>>

\* cmd_config: "blur = args.blur if args.blur % 2 == 1 else args.blur + 1"
CliBlur(b) == IF b % 2 = 1 THEN b ELSE b + 1

\* Values given to "blurcam config --threshold", in hundredths (0.7 is 70).
Thresholds == {70}

\* The options of a "blurcam config" command that saves: --blur, --threshold
\* or both ("if args.blur is not None or args.threshold is not None").
CmdArgs ==
    {[blur |-> b] : b \in BlurValues}
        \cup {[threshold |-> t] : t \in Thresholds}
        \cup {[blur |-> b, threshold |-> t] :
                 b \in BlurValues, t \in Thresholds}

\* cmd_config: the updates it passes on, the blur made odd.
Updates(args) ==
    [k \in DOMAIN args |-> IF k = "blur" THEN CliBlur(args[k]) ELSE args[k]]

\* update_config: "config = load_config()" and "config[key] = value" for the
\* options given; save_config then writes the whole record.
update_config(file, updates) == Merge(load_config(file).value, updates)

\* "blurcam config ..." by another process, up to save_config's
\* "open(config_path, "w")": the record is loaded and updated, and the file
\* is created or truncated, empty until json.dump has written it.
CmdConfig ==
    /\ Running
    /\ cli.kind # "save"
    /\ cli.begun < MaxCommands
    /\ ~load_config(cfgFile).raised
    /\ \E args \in CmdArgs :
        cli' = Command("save", update_config(cfgFile, Updates(args)),
                       cli.begun + 1)
    /\ cfgFile' = Corrupt
    /\ cfgMtime' \in WriteTimes(cfgMtime)
    /\ UNCHANGED <<deviceExists, nOpen, proc, queue, sharedVars, watcherVars,
                   configVars, resourceVars, tickVars, pc, black_frame, rc,
                   last_open>>

\* save_config: "json.dump(config, f, indent=2)" and the end of the with
\* block: the record is in the file.
CmdConfigDump ==
    /\ Running
    /\ cli.kind = "save"
    /\ cli' = [cli EXCEPT !.kind = "done"]
    /\ cfgFile' = Json(cli.config)
    /\ cfgMtime' \in WriteTimes(cfgMtime)
    /\ UNCHANGED <<deviceExists, nOpen, proc, queue, sharedVars, watcherVars,
                   configVars, resourceVars, tickVars, pc, black_frame, rc,
                   last_open>>

\* run has called signal.signal (it does so just before it starts the
\* watcher thread) and never restores the handlers.
HandlersInstalled == wpc # "unstarted"

\* SIGINT or SIGTERM once run has installed signal_handler, also after run
\* has returned, as long as the process lives.
Signal ==
    /\ HandlersInstalled
    /\ Alive
    /\ ~stop_event
    /\ stop_event' = TRUE
    /\ UNCHANGED <<envVars, has_consumers, consumer_event, watcherVars,
                   configVars, resourceVars, tickVars, pc, black_frame, rc,
                   last_open>>

\* ------------------------------------------------------ watcher thread
\* One turn of the for loop of self._get_consumer_count(): the fd directory
\* of entry at of /proc, as it is now, is listed and its links are read with
\* c holders counted so far.  Gives the count, the entry to examine next and
\* whether the listing is exhausted.
_get_consumer_count(at, c) ==
    [count |-> c + EntryCount(proc[at], MyPid, Device),
     at |-> NextAt(proc, at + 1, MyPid),
     done |-> NextAt(proc, at + 1, MyPid) > Len(proc)]

\* "if consumers > 0" after an OPEN event
OpenSeesConsumer(c) == c > 0
\* "if consumers == 0" after an event of either close kind
CloseSeesNone(c) == c = 0

\* The position after one event of the for loop is done.
NextEvent(rest) == IF rest = <<>> THEN "read" ELSE "sleep"

\* Faulty variant: a watcher that cannot watch stops the daemon.
Mut_WatchFailureStops ==
    /\ stop_event' = TRUE
    /\ UNCHANGED <<has_consumers, consumer_event>>
\* "except Exception as e: print(warning); return": no attribute is written.
WatchFailureReturns == UNCHANGED sharedVars

\* inotify.add_watch: on failure the watcher prints a warning and returns.
WatcherAddWatch ==
    /\ wpc = "add_watch"
    /\ Alive
    /\ \E ok \in BOOLEAN :
        IF ok
        THEN /\ wpc' = "read"
             /\ UNCHANGED sharedVars
        ELSE /\ wpc' = "nowatch"
             /\ WatchFailureReturns
    /\ UNCHANGED <<envVars, events, scanAt, count, consumers, configVars,
                   resourceVars, tickVars, pc, black_frame, rc, last_open>>

\* "while not self.stop_event.is_set():" the watcher enters inotify.read or,
\* the flag set, leaves the loop and calls inotify.close().
WatcherLoop ==
    /\ wpc = "read"
    /\ Alive
    /\ wpc' = IF stop_event THEN "closed" ELSE "in_read"
    /\ UNCHANGED <<envVars, sharedVars, events, scanAt, count, consumers,
                   configVars, resourceVars, tickVars, pc, black_frame, rc,
                   last_open>>

\* "events = inotify.read(timeout=500)": everything queued is returned,
\* whatever the stop flag has become since the test; a read that times out
\* returns no event and the loop tests the flag again.
WatcherRead ==
    /\ wpc = "in_read"
    /\ Alive
    /\ IF queue # <<>>
       THEN /\ events' = queue
            /\ queue' = <<>>
            /\ wpc' = "sleep"
       ELSE /\ wpc' = "read"
            /\ UNCHANGED <<queue, events>>
    /\ UNCHANGED <<deviceExists, nOpen, proc, cfgFile, cfgMtime, cli,
                   sharedVars, scanAt, count, consumers, configVars,
                   resourceVars,
                   tickVars, pc, black_frame, rc, last_open>>

\* The walk over /proc goes on from entry at with c holders counted.  When
\* the listing is exhausted the count is returned and has_consumers is
\* written if the recount agrees with the kind of the event.
Walk(at, c) ==
    LET turn == _get_consumer_count(at, c)
    IN IF turn.done
       THEN /\ consumers' = turn.count
            /\ scanAt' = 0
            /\ count' = 0
            /\ IF Head(events) = "OPEN"
               THEN IF OpenSeesConsumer(turn.count)
                    THEN /\ has_consumers' = TRUE
                         /\ wpc' = "set"
                         /\ UNCHANGED events
                    ELSE /\ events' = Tail(events)
                         /\ wpc' = NextEvent(events')
                         /\ UNCHANGED has_consumers
               ELSE IF CloseSeesNone(turn.count)
                    THEN /\ has_consumers' = FALSE
                         /\ wpc' = "set"
                         /\ UNCHANGED events
                    ELSE /\ events' = Tail(events)
                         /\ wpc' = NextEvent(events')
                         /\ UNCHANGED has_consumers
       ELSE /\ wpc' = "scan"
            /\ scanAt' = turn.at
            /\ count' = turn.count
            /\ UNCHANGED <<events, consumers, has_consumers>>

\* One event of the for loop: time.sleep(0.05), "count = 0", the listing of
\* /proc and the first process of the walk.
WatcherRecount ==
    /\ wpc = "sleep"
    /\ Alive
    /\ Walk(NextAt(proc, 1, MyPid), 0)
    /\ UNCHANGED <<envVars, consumer_event, stop_event, configVars,
                   resourceVars, tickVars, pc, black_frame, rc, last_open>>

\* The next process of the walk, the other processes having gone on opening
\* and closing the device since the previous one was examined.
WatcherScan ==
    /\ wpc = "scan"
    /\ Alive
    /\ Walk(scanAt, count)
    /\ UNCHANGED <<envVars, consumer_event, stop_event, configVars,
                   resourceVars, tickVars, pc, black_frame, rc, last_open>>

\* Faulty variant: the watcher goes on without setting the signal.
Mut_WatcherForgetsSet ==
    /\ wpc = "set"
    /\ Alive
    /\ events' = Tail(events)
    /\ wpc' = NextEvent(events')
    /\ UNCHANGED <<envVars, sharedVars, scanAt, count, consumers, configVars,
                   resourceVars, tickVars, pc, black_frame, rc, last_open>>
\* self.consumer_event.set()
WatcherSet ==
    /\ wpc = "set"
    /\ Alive
    /\ consumer_event' = TRUE
    /\ events' = Tail(events)
    /\ wpc' = NextEvent(events')
    /\ UNCHANGED <<envVars, has_consumers, stop_event, scanAt, count,
                   consumers, configVars, resourceVars, tickVars, pc,
                   black_frame, rc, last_open>>

\* --------------------------------------------------------- main thread
\* Faulty variant: the model is taken to be there already.
Mut_ModelNeverNeeded(seg) == FALSE
\* "if segmentation is None: segmentation = SelfieSegmentation(model_path)"
NeedsModel(seg) == seg = 0
\* Faulty variants: the model is never loaded; it is loaded on every attach.
Mut_NoModelLoad(seg) == seg
Mut_AlwaysReload(seg) == (seg % 2) + 1
LoadedSegmentation(seg) == IF NeedsModel(seg) THEN 1 ELSE seg

\* Faulty variant: an unopened VideoCapture left by a failed open is kept.
Mut_OpenOnlyIfNone(c) == c = "None"
\* "if cap is None or not cap.isOpened()"
NeedsOpen(c) == c = "None" \/ c # "opened"

\* Faulty variant: the new VideoCapture is taken to be open unchecked.
Mut_AlwaysOpened(ok) == "opened"
\* The capture handle after cv2.VideoCapture(self.input_device).
OpenedCap(ok) == IF ok THEN "opened" ELSE "closed"

\* Faulty variant: the webcam is not released on the way to idle.
Mut_KeepCap(c) == c
\* "if cap is not None: cap.release(); cap = None"
ReleasedCap(c) == IF c # "None" THEN "None" ELSE c

\* "if self.blur_active and cap is not None and cap.isOpened()"
ReadsCapture(active, c) == active /\ c # "None" /\ c = "opened"

\* Faulty variants: nothing is sent when the read fails; the frame of a
\* failed read is blurred and sent; the idle branch sends a blurred frame.
Mut_SkipOnReadFailure(reads, ret, blur, thr, black) ==
    IF reads
    THEN IF ret THEN <<BlurredFrame(blur, thr)>> ELSE <<>>
    ELSE <<black>>
Mut_BlurOnReadFailure(reads, ret, blur, thr, black) ==
    IF reads THEN <<BlurredFrame(blur, thr)>> ELSE <<black>>
Mut_IdleSendsBlurred(reads, ret, blur, thr, black) ==
    IF reads
    THEN IF ret THEN <<BlurredFrame(blur, thr)>> ELSE <<black>>
    ELSE <<BlurredFrame(blur, thr)>>
\* The frames one iteration passes to vcam.send, in order: the blurred frame
\* when the capture is read and the read succeeds, black_frame otherwise.
FramesToSend(reads, ret, blur, thr, black) ==
    IF reads
    THEN IF ret THEN <<BlurredFrame(blur, thr)>> ELSE <<black>>
    ELSE <<black>>

\* Faulty variant: the finally clause leaves the webcam open.
Mut_FinallyKeepsCap(c) == c
\* finally: "if cap is not None: cap.release()" (cap keeps the object)
FinallyCap(c) == IF c # "None" THEN "closed" ELSE c

\* Faulty variant: run goes on without looking for the device.
Mut_SkipDeviceCheck == FALSE
\* "if not os.path.exists(self.device):"
DeviceMissing == ~deviceExists

\* "config_mtime = get_config_mtime()" has returned new_mtime: the locals
\* that follow it, up to the try statement.
StartLocals(new_mtime) ==
    /\ config_mtime' = new_mtime
    /\ blur_strength' = OddBlur(config.blur)
    /\ threshold' = config.threshold
    /\ pc' = "camera"

\* run up to the exists() of its first get_config_mtime: the check that the
\* device exists, the signal handlers, the watcher thread, black_frame; with
\* no configuration file get_config_mtime returns 0.
Start ==
    /\ pc = "start"
    /\ IF DeviceMissing
       THEN /\ rc' = 1
            /\ pc' = "returned"
            /\ UNCHANGED <<wpc, black_frame, config_mtime, blur_strength,
                           threshold>>
       ELSE /\ wpc' = "add_watch"
            /\ black_frame' = BlackFrame(config.width, config.height)
            /\ UNCHANGED rc
            /\ IF ConfigExists(cfgFile)
               THEN /\ pc' = "start_stat"
                    /\ UNCHANGED <<config_mtime, blur_strength, threshold>>
               ELSE StartLocals(0)
    /\ UNCHANGED <<envVars, sharedVars, events, scanAt, count, consumers,
                   config, resourceVars, tickVars, last_open>>

\* The stat() of that get_config_mtime.  When the file has been removed
\* since exists() it raises FileNotFoundError, and as the call is outside
\* the try statement the exception leaves run: nothing is returned, and the
\* watcher thread, already started, goes on.
StartStat ==
    /\ pc = "start_stat"
    /\ LET got == get_config_mtime(cfgFile, cfgMtime)
       IN IF got.raised
          THEN /\ pc' = "raised"
               /\ UNCHANGED <<config_mtime, blur_strength, threshold>>
          ELSE StartLocals(got.value)
    /\ UNCHANGED <<envVars, sharedVars, watcherVars, config, resourceVars,
                   tickVars, black_frame, rc, last_open>>

\* "with pyvirtualcam.Camera(...) as vcam": the daemon opens the output
\* device itself, for writing, which the watch (if already set up) reports
\* as an OPEN.  Camera() may raise, which "except Exception" catches: when
\* the device cannot be opened ("refused"), or once it has been opened
\* ("failed"), the descriptor then being closed as the exception leaves
\* Camera(), a close that is part of the step Return.
OpenCamera ==
    /\ pc = "camera"
    /\ \E outcome \in {"ok", "refused", "failed"} :
        IF outcome = "refused"
        THEN /\ pc' = "except"
             /\ UNCHANGED <<proc, queue>>
        ELSE /\ queue' = Notified(queue, "OPEN", TRUE)
             /\ proc' = OwnHandle(proc, TRUE)
             /\ pc' = IF outcome = "ok" THEN "top" ELSE "except"
    /\ UNCHANGED <<deviceExists, nOpen, cfgFile, cfgMtime, cli, sharedVars,
                   watcherVars, configVars, resourceVars, tickVars,
                   black_frame, rc, last_open>>

\* Between iterations of the loop nothing has been done for the next one.
NoTick ==
    /\ sent' = 0
    /\ frame' = NoFrame
    /\ transition' = "none"
    /\ opened' = "none"
    /\ readRes' = "none"
    /\ reloaded' = FALSE

\* "while not self.stop_event.is_set():" and "if self.consumer_event.is_set():"
LoopTop ==
    /\ pc = "top"
    /\ pc' = IF stop_event THEN "finally"
             ELSE IF consumer_event THEN "clear" ELSE "config"
    /\ UNCHANGED <<envVars, sharedVars, watcherVars, configVars,
                   resourceVars, tickVars, black_frame, rc, last_open>>

\* Faulty variant: the main loop resets has_consumers with the signal.
Mut_ClearResetsFlag ==
    /\ pc = "clear"
    /\ consumer_event' = FALSE
    /\ has_consumers' = FALSE
    /\ pc' = "read1"
    /\ UNCHANGED <<envVars, stop_event, watcherVars, configVars,
                   resourceVars, tickVars, black_frame, rc, last_open>>
\* self.consumer_event.clear()
ClearEvent ==
    /\ pc = "clear"
    /\ consumer_event' = FALSE
    /\ pc' = "read1"
    /\ UNCHANGED <<envVars, has_consumers, stop_event, watcherVars,
                   configVars, resourceVars, tickVars, black_frame, rc,
                   last_open>>

\* "if self.has_consumers and not self.blur_active:" and its body: the model
\* is loaded if needed (get_model_path or SelfieSegmentation may raise), the
\* webcam is opened if needed, and a failed open resets blur_active.
ConsumerConnected ==
    /\ pc = "read1"
    /\ IF has_consumers /\ ~blur_active
       THEN /\ transition' = "toActive"
            /\ \E raised \in {FALSE, NeedsModel(segmentation)} :
                IF raised
                THEN /\ blur_active' = TRUE
                     /\ pc' = "except"
                     /\ UNCHANGED <<segmentation, cap, opened, last_open>>
                ELSE /\ segmentation' = LoadedSegmentation(segmentation)
                     /\ pc' = "config"
                     /\ IF NeedsOpen(cap)
                        THEN \E ok \in BOOLEAN :
                                /\ cap' = OpenedCap(ok)
                                /\ blur_active' = ok
                                /\ opened' = IF ok THEN "ok" ELSE "failed"
                                /\ last_open' = opened'
                        ELSE /\ blur_active' = TRUE
                             /\ UNCHANGED <<cap, opened, last_open>>
       ELSE /\ pc' = "read2"
            /\ UNCHANGED <<resourceVars, transition, opened, last_open>>
    /\ UNCHANGED <<envVars, sharedVars, watcherVars, configVars, sent, frame,
                   readRes, reloaded, black_frame, rc>>

\* "elif not self.has_consumers and self.blur_active:" and its body.
NoConsumers ==
    /\ pc = "read2"
    /\ IF ~has_consumers /\ blur_active
       THEN /\ blur_active' = FALSE
            /\ cap' = ReleasedCap(cap)
            /\ transition' = "toIdle"
       ELSE UNCHANGED <<blur_active, cap, transition>>
    /\ pc' = "config"
    /\ UNCHANGED <<envVars, sharedVars, watcherVars, configVars,
                   segmentation, sent, frame, opened, readRes, reloaded,
                   black_frame, rc, last_open>>

\* "if new_mtime > config_mtime: config_mtime = new_mtime": the marker found
\* is taken before the file is opened.
NewerMarker(new_mtime) ==
    IF new_mtime > config_mtime
    THEN /\ config_mtime' = new_mtime
         /\ pc' = "load"
    ELSE /\ pc' = "frame"
         /\ UNCHANGED config_mtime

\* "new_mtime = get_config_mtime()" up to its exists(): with no file it
\* returns 0.
CheckConfig ==
    /\ pc = "config"
    /\ IF ConfigExists(cfgFile)
       THEN /\ pc' = "stat"
            /\ UNCHANGED config_mtime
       ELSE NewerMarker(0)
    /\ UNCHANGED <<envVars, sharedVars, watcherVars, config, blur_strength,
                   threshold, resourceVars, tickVars, black_frame, rc,
                   last_open>>

\* The stat() of that get_config_mtime.  When the file has been removed
\* since exists() it raises FileNotFoundError, which "except Exception"
\* catches: the loop is left.
StatConfig ==
    /\ pc = "stat"
    /\ LET got == get_config_mtime(cfgFile, cfgMtime)
       IN IF got.raised
          THEN /\ pc' = "except"
               /\ UNCHANGED config_mtime
          ELSE NewerMarker(got.value)
    /\ UNCHANGED <<envVars, sharedVars, watcherVars, config, blur_strength,
                   threshold, resourceVars, tickVars, black_frame, rc,
                   last_open>>

\* Faulty variant: a reload lets go of the webcam.
Mut_ReloadReleasesCapture ==
    /\ cap' = ReleasedCap(cap)
    /\ UNCHANGED <<blur_active, segmentation>>
\* The body of "if new_mtime > config_mtime:" assigns config_mtime,
\* self.config, blur_strength and threshold, and nothing else.
ReloadKeepsResources == UNCHANGED resourceVars

\* "self.config = load_config()" and the two locals taken from it: the file
\* is read as it is now, which may be newer than the marker just taken.
LoadConfig ==
    /\ pc = "load"
    /\ ReloadKeepsResources
    /\ LET loaded == load_config(cfgFile)
       IN IF loaded.raised
          THEN /\ pc' = "except"
               /\ UNCHANGED <<config, blur_strength, threshold, reloaded>>
          ELSE /\ config' = loaded.value
               /\ blur_strength' = OddBlur(loaded.value.blur)
               /\ threshold' = loaded.value.threshold
               /\ reloaded' = TRUE
               /\ pc' = "frame"
    /\ UNCHANGED <<envVars, sharedVars, watcherVars, config_mtime, sent,
                   frame, transition, opened, readRes, black_frame, rc,
                   last_open>>

\* "Generate frame": the capture is read when active and open; inference,
\* compositing and the write to the device may raise.
GenerateFrame ==
    /\ pc = "frame"
    /\ LET reads == ReadsCapture(blur_active, cap)
       IN \E ret \in {TRUE, ~reads}, raised \in BOOLEAN :
            LET out == FramesToSend(reads, ret, blur_strength, threshold,
                                    black_frame)
            IN /\ readRes' = IF ~reads THEN "none"
                             ELSE IF ret THEN "ok" ELSE "failed"
               /\ (reads /\ ret /\ segmentation = 0) => raised
               /\ IF raised
                  THEN /\ pc' = "except"
                       /\ UNCHANGED <<sent, frame>>
                  ELSE /\ sent' = sent + Len(out)
                       /\ frame' = IF out = <<>> THEN frame
                                   ELSE out[Len(out)]
                       /\ pc' = "sleep"
    /\ UNCHANGED <<envVars, sharedVars, watcherVars, configVars,
                   resourceVars, transition, opened, reloaded, black_frame,
                   rc, last_open>>

\* vcam.sleep_until_next_frame(): the iteration is over.
SleepUntilNextFrame ==
    /\ pc = "sleep"
    /\ pc' = "top"
    /\ NoTick
    /\ UNCHANGED <<envVars, sharedVars, watcherVars, configVars,
                   resourceVars, black_frame, rc, last_open>>

\* Faulty variants: leaving the loop on a stop request is reported as an
\* error; an exception is reported as success.
Mut_StopReturnsError(p) == 1
Mut_ExceptionReturnsZero(p) == 0
\* "return 1" in the except clause, "return 0" after the try statement.
ReturnCode(p) == IF p = "except" THEN 1 ELSE 0

\* The daemon itself holds the output device: pyvirtualcam.Camera opened it.
OwnOpen == proc[1].fds # <<>>

\* Leaving the try block: "except Exception: return 1", "finally: if cap is
\* not None: cap.release()", "return 0"; leaving the with block, or Camera()
\* by an exception, closes the daemon's descriptor on the output device,
\* opened for writing, which the watch reports as IN_CLOSE_WRITE: merged
\* with an unread close of a writable descriptor, queued after one of a
\* descriptor opened read-only.
Return ==
    /\ pc \in {"finally", "except"}
    /\ cap' = FinallyCap(cap)
    /\ rc' = ReturnCode(pc)
    /\ proc' = OwnHandle(proc, FALSE)
    /\ \E same \in SameKind("CLOSE") :
        queue' = IF OwnOpen THEN Notified(queue, "CLOSE", same) ELSE queue
    /\ pc' = "returned"
    /\ NoTick
    /\ UNCHANGED <<deviceExists, nOpen, cfgFile, cfgMtime, cli, sharedVars,
                   watcherVars, configVars, blur_active, segmentation,
                   black_frame, last_open>>

\* cli: "sys.exit(main())" with the status run returned, or the end of the
\* interpreter on the exception that left run.  The interpreter does not
\* wait for daemon threads and run never joins the watcher: it ends with the
\* process, wherever it is.
SysExit ==
    /\ pc \in {"returned", "raised"}
    /\ pc' = "exited"
    /\ UNCHANGED <<envVars, sharedVars, watcherVars, configVars,
                   resourceVars, tickVars, black_frame, rc, last_open>>

\* ------------------------------------------------------- specification
\* The two threads of the daemon.  The main thread reaches the steps of
\* MainOnFile only after the file has been written, so they belong to the
\* specifications in which it is.
Watcher ==
    \/ WatcherAddWatch
    \/ WatcherLoop
    \/ WatcherRead
    \/ WatcherRecount
    \/ WatcherScan
    \/ WatcherSet
Main ==
    \/ Start
    \/ OpenCamera
    \/ LoopTop
    \/ ClearEvent
    \/ ConsumerConnected
    \/ NoConsumers
    \/ CheckConfig
    \/ GenerateFrame
    \/ SleepUntilNextFrame
    \/ Return
    \/ SysExit
MainOnFile ==
    \/ StartStat
    \/ StatConfig
    \/ LoadConfig

\* The daemon among consumers that come and go, its configuration file left
\* alone.
Next ==
    \/ ConsumerOpen(MaxConsumers, MaxQueue)
    \/ ConsumerClose(MaxQueue)
    \/ Signal
    \/ Watcher
    \/ Main

Spec == Init /\ [][Next]_vars

\* The daemon with its configuration file rewritten or removed while it
\* runs, and one consumer that attaches and detaches, opening or closing the
\* device only when that leaves no more than one notification unread.
NextConfig ==
    \/ ConsumerOpen(1, 1)
    \/ ConsumerClose(1)
    \/ SaveConfig
    \/ Uninstall
    \/ Signal
    \/ Watcher
    \/ Main
    \/ MainOnFile

SpecConfig == Init /\ [][NextConfig]_vars

\* The daemon with one consumer that attaches and detaches and both of its
\* threads scheduled again and again: the interpreter switches threads, and
\* cap.read, vcam.send, sleep_until_next_frame and inotify.read(timeout=500)
\* all return.
NextFair ==
    \/ ConsumerOpen(1, 1)
    \/ ConsumerClose(1)
    \/ Signal
    \/ Watcher
    \/ Main

SpecFair == Init /\ [][NextFair]_vars /\ WF_vars(Main) /\ WF_vars(Watcher)

\* A call of self._get_consumer_count() by itself, no process opening or
\* closing anything meanwhile: one turn of its loop at a time, then "return
\* count".
CountConsumers ==
    /\ consumers = -1
    /\ LET at == IF scanAt = 0 THEN NextAt(proc, 1, MyPid) ELSE scanAt
           turn == _get_consumer_count(at, count)
       IN IF turn.done
          THEN /\ consumers' = turn.count
               /\ scanAt' = 0
               /\ count' = 0
          ELSE /\ scanAt' = turn.at
               /\ count' = turn.count
               /\ UNCHANGED consumers
    /\ UNCHANGED <<envVars, sharedVars, wpc, events, configVars,
                   resourceVars, tickVars, pc, black_frame, rc, last_open>>

\* One scan of each of the process tables.
NextCount == CountConsumers
SpecCount == InitCount /\ [][NextCount]_vars

\* The daemon with no consumer and its watcher yet to run, the blur setting
\* being any integer, in the file at startup or set from the command line.
NextBlur ==
    \/ CmdConfig
    \/ CmdConfigDump
    \/ Signal
    \/ Start
    \/ StartStat
    \/ OpenCamera
    \/ LoopTop
    \/ CheckConfig
    \/ StatConfig
    \/ LoadConfig
    \/ GenerateFrame
    \/ SleepUntilNextFrame
    \/ Return
    \/ SysExit

SpecBlur == InitBlur /\ [][NextBlur]_vars

\* ================================================================ claims
\* The main loop is between two iterations.
TickBoundary == pc = "top"
\* The iteration has written its frame and is about to pace.
TickEnd == pc = "sleep"
\* The iteration is past its handling of the consumer signal.
PastSignal == pc \in {"config", "stat", "load", "frame", "sleep"}
\* The main loop has no consumer signal left to process.
SignalProcessed == pc = "top" /\ ~consumer_event /\ wpc # "set"
\* Notifications have stopped and everything raised has been handled.
Quiescent ==
    /\ pc = "top"
    /\ ~consumer_event
    /\ wpc \in {"read", "in_read"}
    /\ queue = <<>>
    /\ events = <<>>

\* C1: once the main loop has processed the pending consumer signal, and no
\* capture open has failed, the daemon is Active iff the watcher's most recent
\* recount returned a value > 0.
C1_ActiveIffLastRecount ==
    (SignalProcessed /\ consumers # -1 /\ last_open # "failed")
        => (blur_active <=> consumers > 0)

\* C2: once notifications have stopped and every queued event and the
\* consumer signal have been processed, and no capture open has failed, the
\* daemon is Active iff some external process holds the output device open.
C2_SettlesToTrueCount ==
    (Quiescent /\ last_open # "failed") => (blur_active <=> nOpen > 0)

\* C3 (as stated): in the iteration that observes the signal with
\* has_consumers true while Idle, the inference handle is present, the capture
\* is open and, the open having succeeded, the state is Active and the frame
\* written is a frame of the capture device, not the filler frame.
C3_AttachFrameFromCapture ==
    (TickEnd /\ transition = "toActive" /\ opened = "ok")
        => /\ segmentation # 0
           /\ cap = "opened"
           /\ blur_active
           /\ frame = BlurredFrame(blur_strength, threshold)

\* C3 (amended): the step that handles the signal with has_consumers true
\* while Idle marks the iteration as an attach, and when the iteration goes
\* on the inference handle is present and an open of the capture has been
\* attempted; from there to the end of the iteration the handle stays, the
\* capture object is there, and it is open and the state Active iff the open
\* succeeded; nothing is written before frame production, which after a
\* successful open reads the capture; and the frame such an iteration has
\* written is the blurred frame when that read succeeded, the filler frame
\* when it failed.
C3_AttachWithinTick ==
    /\ [][ (pc = "read1" /\ pc' # pc /\ has_consumers /\ ~blur_active)
              => /\ transition' = "toActive"
                 /\ pc' \in {"config", "except"}
                 /\ pc' = "config"
                      => (segmentation' # 0 /\ opened' \in {"ok", "failed"}) ]_vars
    /\ []((PastSignal /\ transition = "toActive")
            => /\ segmentation # 0
               /\ opened \in {"ok", "failed"}
               /\ cap # "None"
               /\ opened = "ok" <=> (cap = "opened" /\ blur_active))
    /\ []((pc \in {"config", "stat", "load", "frame"}
               /\ transition = "toActive")
            => sent = 0)
    /\ [][ (pc = "frame" /\ pc' # pc /\ transition = "toActive"
                        /\ opened = "ok")
              => readRes' \in {"ok", "failed"} ]_vars
    /\ []((TickEnd /\ transition = "toActive" /\ opened = "ok")
            => /\ sent = 1
               /\ readRes = "ok"
                    => frame = BlurredFrame(blur_strength, threshold)
               /\ readRes = "failed" => frame = black_frame)

\* An attach iteration that opened the capture, reloaded the configuration
\* and wrote a frame read from the capture.
C3_Witness ==
    /\ TickEnd
    /\ transition = "toActive"
    /\ opened = "ok"
    /\ reloaded
    /\ readRes = "ok"
    /\ frame = BlurredFrame(blur_strength, threshold)

\* C4: in the iteration that observes the signal with has_consumers false
\* while Active, before the frame is produced the capture handle is released
\* and None and the state Idle, the inference handle is still there, and the
\* frame written is the filler frame.
C4_DetachWithinTick ==
    /\ (PastSignal /\ transition = "toIdle")
          => (cap = "None" /\ ~blur_active /\ segmentation # 0)
    /\ (pc \in {"config", "stat", "load", "frame"} /\ transition = "toIdle")
          => sent = 0
    /\ (TickEnd /\ transition = "toIdle")
          => (sent = 1 /\ readRes = "none" /\ frame = black_frame)

\* A detach iteration, after an attach whose open succeeded.
C4_Witness ==
    TickEnd /\ transition = "toIdle" /\ last_open = "ok" /\ frame = black_frame

\* C5 (as stated): at every tick boundary the capture handle is not None iff
\* the state is Active and the most recent open succeeded.
C5_CapNonNullIffActive ==
    (TickBoundary \/ TickEnd)
        => ((cap # "None") <=> (blur_active /\ last_open = "ok"))

\* C5 (amended): at every tick boundary the capture handle is open (not None
\* and isOpened()) iff the state is Active and the most recent open succeeded;
\* after an Active->Idle transition it is None, and after a failed open it is
\* an unopened object, not None.
C5_CapOpenIffActive ==
    (TickBoundary \/ TickEnd)
        => /\ (cap = "opened") <=> (blur_active /\ last_open = "ok")
           /\ blur_active => last_open = "ok"
           /\ transition = "toIdle" => cap = "None"
           /\ last_open = "failed" => cap = "closed"
           /\ last_open = "none" => cap = "None"

\* A tick boundary after a failed open: Idle, the handle an unopened object.
C5_Witness ==
    TickBoundary /\ last_open = "failed" /\ cap = "closed" /\ ~blur_active

\* C6: a capture open that fails during Idle->Active leaves the state Idle at
\* the end of that iteration, which does not leave the loop and writes the
\* filler frame; and whenever the loop next observes the signal with
\* has_consumers true, the open is attempted again.
C6_OpenFailureRetried ==
    /\ [](  (TickEnd /\ opened = "failed")
              => (~blur_active /\ sent = 1 /\ frame = black_frame))
    /\ [][ (pc = "read1" /\ pc' # pc /\ has_consumers /\ ~blur_active)
              => /\ opened' \in {"ok", "failed"} \/ pc' = "except"
                 /\ opened' = "failed" => (pc' = "config" /\ ~blur_active')
                 /\ last_open = "failed" => pc' = "config" ]_vars

\* After a failed open the loop is about to handle a new consumer signal.
C6_Witness ==
    /\ pc = "read1"
    /\ has_consumers
    /\ ~blur_active
    /\ last_open = "failed"
    /\ cap = "closed"

\* C7: the inference handle is created only by an Idle->Active transition,
\* every such transition that completes leaves it present, and once present
\* it is never released or replaced.
C7_ModelLoadedOnce ==
    [][ /\ segmentation # 0 => segmentation' = segmentation
        /\ (segmentation = 0 /\ segmentation' # 0)
              => (pc = "read1" /\ has_consumers /\ ~blur_active)
        /\ (pc = "read1" /\ pc' \notin {pc, "except"}
                           /\ has_consumers /\ ~blur_active)
              => segmentation' # 0 ]_vars

\* A later attach finds the handle of the first: Idle again after a
\* successful attach, a consumer signalled, the handle present.
C7_Witness ==
    /\ pc = "read1"
    /\ has_consumers
    /\ ~blur_active
    /\ last_open = "ok"
    /\ cap = "None"
    /\ segmentation # 0

\* C8: no frame is written before the frame step of an iteration, and an
\* iteration that reaches its pacing wait has written exactly one frame,
\* whatever happened in it; the wait ends the iteration.
C8_OneFramePerTick ==
    /\ [](pc \in {"top", "clear", "read1", "read2", "config", "stat",
                   "load", "frame"}
            => sent = 0)
    /\ [](TickEnd => (sent = 1 /\ frame # NoFrame))
    /\ [][(TickEnd /\ pc' # pc) => (pc' = "top" /\ sent' = 0)]_vars

\* An iteration with a transition, a reload and a failed read, one frame.
C8_Witness ==
    /\ TickEnd
    /\ transition = "toActive"
    /\ reloaded
    /\ readRes = "failed"
    /\ sent = 1

\* C9: whenever the state is Idle at frame production the frame written is
\* black_frame, and black_frame is never changed after startup, also not by
\* a configuration reload that changes width or height.
C9_IdleFillerFixed ==
    /\ []((TickEnd /\ ~blur_active)
            => (frame = black_frame /\ frame.kind = "black"))
    /\ [][pc \notin {"start"} => black_frame' = black_frame]_vars

\* An Idle iteration after a reload that changed the configured width.
C9_Witness ==
    /\ TickEnd
    /\ ~blur_active
    /\ config.width # black_frame.width
    /\ frame = black_frame

\* C10: a failed read while Active makes the iteration write the filler
\* frame and go on to its pacing wait (unless the write itself raises),
\* state, capture handle and inference handle unchanged.
C10_ReadFailureFiller ==
    [][ (pc = "frame" /\ pc' # pc /\ readRes' = "failed")
          => /\ blur_active' /\ cap' = "opened"
             /\ UNCHANGED <<blur_active, cap, segmentation>>
             /\ pc' \in {"sleep", "except"}
             /\ pc' = "sleep" => (sent' = 1 /\ frame' = black_frame) ]_vars

\* An iteration that was Active before it began and whose read failed.
C10_Witness ==
    /\ TickEnd
    /\ transition = "none"
    /\ readRes = "failed"
    /\ blur_active
    /\ frame = black_frame

\* The value the file holds for a key, as load_config merges it.
SavedValue(k) ==
    IF k \in DOMAIN cfgFile.saved THEN cfgFile.saved[k] ELSE DEFAULT_CONFIG[k]

\* C11: the marker last seen never exceeds that of the latest write, so a
\* save that leaves a strictly newer marker is newer than the one seen; the
\* poll that finds a newer marker on the file takes it and goes on to load
\* the file; the load of a settings record takes the saved blur (made odd)
\* and threshold, the frame of that iteration and of later ones is produced
\* with the values in force, which change at no other place; a poll that
\* finds no file or a marker not newer than the one seen reloads nothing.
C11_ReloadOnNewerMarker ==
    /\ [](config_mtime <= cfgMtime)
    /\ [][ (pc = "config" /\ pc' # pc /\ ConfigExists(cfgFile))
              => (pc' = "stat" /\ UNCHANGED configVars /\ ~reloaded') ]_vars
    /\ [][ (pc = "stat" /\ pc' # pc /\ cfgMtime > config_mtime
                        /\ ConfigExists(cfgFile))
              => (pc' = "load" /\ config_mtime' = cfgMtime) ]_vars
    /\ [][ (pc = "load" /\ pc' # pc /\ cfgFile.kind = "json")
              => /\ pc' = "frame"
                 /\ reloaded'
                 /\ blur_strength' \in {SavedValue("blur"),
                                        SavedValue("blur") + 1}
                 /\ blur_strength' % 2 = 1
                 /\ threshold' = SavedValue("threshold") ]_vars
    /\ [][ \/ pc = "config" /\ pc' # pc /\ ~ConfigExists(cfgFile)
           \/ pc = "stat" /\ pc' # pc /\ ConfigExists(cfgFile)
                          /\ cfgMtime <= config_mtime
              => (pc' = "frame" /\ UNCHANGED configVars /\ ~reloaded') ]_vars
    /\ [][ pc \notin {"start", "start_stat", "stat", "load"}
              => UNCHANGED configVars ]_vars
    /\ []((TickEnd /\ readRes = "ok")
            => frame = BlurredFrame(blur_strength, threshold))

\* An Active iteration that found the marker of the second write of a save,
\* newer than that of the first, reloaded the record saved and blurred its
\* frame with its values.
C11_Witness ==
    /\ TickEnd
    /\ reloaded
    /\ readRes = "ok"
    /\ config_mtime > 1
    /\ config_mtime = cfgMtime
    /\ cfgFile.kind = "json"
    /\ blur_strength # OddBlur(DEFAULT_CONFIG.blur)
    /\ threshold # DEFAULT_CONFIG.threshold
    /\ frame = BlurredFrame(SavedValue("blur") + 1, SavedValue("threshold"))

\* C12: the steps of the main loop that find a newer marker and reload
\* leave DaemonState, the capture handle, the inference handle,
\* has_consumers and the consumer signal as they were, and with them
\* everything but the configuration, its marker, blur strength and
\* threshold.
C12_ReloadKeepsState ==
    [][ (pc \in {"config", "stat", "load"} /\ pc' # pc)
          => /\ UNCHANGED <<blur_active, cap, segmentation>>
             /\ UNCHANGED <<has_consumers, consumer_event>>
             /\ UNCHANGED <<envVars, stop_event, watcherVars, black_frame,
                            sent, frame, transition, rc, last_open>> ]_vars

\* Just after a reload while Active with a consumer signal pending: handles
\* held, flag and signal still set, the new blur strength in force.
C12_Witness ==
    /\ pc = "frame"
    /\ reloaded
    /\ blur_active
    /\ cap = "opened"
    /\ segmentation # 0
    /\ has_consumers
    /\ consumer_event
    /\ blur_strength = 21

\* C13: whatever the configuration file holds when the main loop finds it
\* and loads it, the iteration goes on to frame production: hot-applying
\* never ends the loop.
C13_ReloadNeverEndsLoop ==
    /\ [][ (pc = "stat" /\ pc' # pc /\ cfgFile # Absent)
              => pc' \in {"load", "frame"} ]_vars
    /\ [][ (pc = "load" /\ pc' # pc) => pc' = "frame" ]_vars

\* C14: when the output device does not exist, the first step of run returns
\* 1; run is never anywhere but at its start or returned, so the watcher
\* thread is not started, the output device is not opened, no frame is
\* written and neither the capture nor the inference handle is acquired.
C14_MissingDeviceReturns ==
    /\ [][ (pc = "start" /\ pc' # pc /\ ~deviceExists)
              => (pc' = "returned" /\ rc' = 1) ]_vars
    /\ [](~deviceExists
            => /\ pc \in {"start", "returned", "exited"}
               /\ wpc = "unstarted"
               /\ cap = "None"
               /\ segmentation = 0
               /\ black_frame = NoFrame
               /\ sent = 0
               /\ ~blur_active
               /\ pc \in {"returned", "exited"} => rc = 1)

\* run has returned 1 for want of the device.
C14_Witness ==
    /\ ~deviceExists
    /\ pc = "returned"
    /\ rc = 1
    /\ wpc = "unstarted"

\* C15: the watcher that fails to set up its watch returns without writing
\* has_consumers, the consumer signal or the stop flag and without touching
\* the main thread; from then on the flag and the signal stay clear, the
\* daemon Idle, no handle acquired, the loop never enters its signal branch,
\* goes on from the top of every iteration while not stopped, and every
\* iteration writes the filler frame.
C15_WatchFailureStaysIdle ==
    /\ [][ (wpc # "nowatch" /\ wpc' = "nowatch")
              => UNCHANGED <<sharedVars, resourceVars, pc, rc>> ]_vars
    /\ [][ wpc = "nowatch" => wpc' = "nowatch" ]_vars
    /\ [](wpc = "nowatch"
            => /\ ~has_consumers
               /\ ~consumer_event
               /\ ~blur_active
               /\ cap = "None"
               /\ segmentation = 0
               /\ consumers = -1
               /\ pc \notin {"clear", "read1", "read2"})
    /\ [][ (wpc = "nowatch" /\ pc = "top" /\ pc' # pc /\ ~stop_event)
              => pc' = "config" ]_vars
    /\ []((wpc = "nowatch" /\ TickEnd) => (sent = 1 /\ frame = black_frame))

\* The watch failed, a consumer holds the device, and the iteration has
\* written the filler frame.
C15_Witness ==
    /\ wpc = "nowatch"
    /\ nOpen > 0
    /\ TickEnd
    /\ ~blur_active
    /\ frame = black_frame

\* C16: the stop flag, once set by a termination request, stays set; the
\* pacing wait leads to the top of the loop and nowhere else; the top of the
\* loop, finding the flag set, leaves the loop instead of starting an
\* iteration, and run then returns 0; and after a stop request run
\* eventually returns.
C16_StopEndsLoop ==
    /\ [][ stop_event => stop_event' ]_vars
    /\ [][ (pc = "sleep" /\ pc' # pc) => pc' = "top" ]_vars
    /\ [][ (pc = "top" /\ pc' # pc /\ stop_event) => pc' = "finally" ]_vars
    /\ [][ (pc = "finally" /\ pc' # pc)
              => (pc' = "returned" /\ rc' = 0 /\ stop_event) ]_vars
    /\ stop_event ~> (pc \in {"returned", "exited"})

\* run has returned 0 after a stop request that found the daemon Active.
C16_Witness ==
    /\ pc = "returned"
    /\ stop_event
    /\ rc = 0
    /\ blur_active
    /\ cap = "closed"

\* C17: when the process ends after a stop request that ended the main
\* loop, the watcher thread has left its loop and closed its inotify handle
\* (or had returned for want of a watch): both threads have run to their end.
C17_WatcherClosedAtExit ==
    (pc = "exited" /\ stop_event /\ rc = 0) => wpc \in {"closed", "nowatch"}

\* C18: once run has returned the capture handle is not open, whichever way
\* the loop was left; an exception raised in the try block is handled by
\* returning 1 with the handle released, and the stop path returns 0 with
\* the handle released.
C18_ReleasedOnReturn ==
    /\ [](pc \in {"returned", "exited"} => (cap # "opened" /\ rc \in {0, 1}))
    /\ [][ (pc = "except" /\ pc' # pc)
              => (pc' = "returned" /\ rc' = 1 /\ cap' # "opened") ]_vars
    /\ [][ (pc = "finally" /\ pc' # pc)
              => (pc' = "returned" /\ cap' # "opened") ]_vars
    /\ [][ (pc' = "returned" /\ pc # "returned")
              => pc \in {"start", "except", "finally"} ]_vars

\* run has returned 1 after an exception raised while Active with the
\* webcam open (a frame had been read), the handle released.
C18_Witness ==
    /\ pc = "returned"
    /\ rc = 1
    /\ blur_active
    /\ last_open = "ok"
    /\ cap = "closed"

\* C19: from the first recount on, has_consumers equals (latest recount > 0):
\* the watcher writes both in the same step of handling a notification, and
\* the kind of the notification plays no part.
C19_FlagIsRecount ==
    consumers # -1 => (has_consumers <=> consumers > 0)

\* C20: the watcher goes on to set the consumer signal only from a recount
\* that changed has_consumers.
C20_SignalOnlyOnFlip ==
    [][ (wpc \in {"sleep", "scan"} /\ wpc' = "set")
          => has_consumers' # has_consumers ]_vars

\* The settings records load_config can return.
Snapshots == {load_config(f).value : f \in FileContents \cup {Absent}}

\* C21: self.config is always a whole record returned by one load_config;
\* in the loop blur strength and threshold are those of that one record (the
\* blur made odd); and a frame blurred from a capture read carries the blur
\* strength and threshold of one and the same record, never the blur of one
\* and the threshold of another.
C21_OneSnapshot ==
    /\ [](config \in Snapshots)
    /\ [](InLoop => /\ blur_strength \in {config.blur, config.blur + 1}
                    /\ threshold = config.threshold)
    /\ []((TickEnd /\ readRes = "ok")
            => /\ frame.kind = "blurred"
               /\ frame.blur \in {config.blur, config.blur + 1}
               /\ frame.threshold = config.threshold)

\* An Active iteration whose reload brought a record that changes both the
\* blur strength and the threshold, and whose frame was blurred with the two
\* new values.
C21_Witness ==
    /\ TickEnd
    /\ readRes = "ok"
    /\ reloaded
    /\ config.blur = 20
    /\ config.threshold = 70
    /\ frame = BlurredFrame(21, 70)

\* C22: a step of the watcher thread, once started, leaves blur_active, the capture handle,
\* the inference handle and every other local of the main thread as they
\* were; a step of the main thread leaves has_consumers as it was and never
\* sets the consumer signal; has_consumers is written only by the watcher's
\* recount, the signal is set only by the watcher and cleared only by the
\* main loop's clear.
C22_ThreadsOwnTheirState ==
    /\ [][ (wpc # "unstarted" /\ watcherVars' # watcherVars)
              => UNCHANGED <<resourceVars, configVars, tickVars, pc,
                             black_frame, rc, last_open, stop_event>> ]_vars
    /\ [][ pc' # pc
              => /\ has_consumers' = has_consumers
                 /\ consumer_event' => consumer_event
                 /\ pc # "start" => UNCHANGED watcherVars ]_vars
    /\ [][ has_consumers' # has_consumers
              => wpc \in {"sleep", "scan"} ]_vars
    /\ [][ (~consumer_event /\ consumer_event') => wpc = "set" ]_vars
    /\ [][ (consumer_event /\ ~consumer_event') => pc = "clear" ]_vars

\* The watcher has just cleared has_consumers and is about to set the signal
\* while the main loop is Active and holds both handles.
C22_Witness ==
    /\ wpc = "set"
    /\ ~has_consumers
    /\ blur_active
    /\ cap = "opened"
    /\ segmentation # 0

\* C23: _get_consumer_count returns the number of processes, the daemon's
\* own pid excepted and no other, that hold at least one descriptor on the
\* device: once however many they hold, none for a process whose descriptors
\* cannot be listed, none for a name in /proc that is not a pid.
C23_CountsHolders ==
    consumers # -1 => consumers = Holders(proc)

\* A scan that found the daemon itself on the device, a process with two
\* descriptors on it and a process whose descriptors cannot be listed.
C23_Witness ==
    /\ consumers = 1
    /\ proc[1] = OwnEntry(TRUE)
    /\ proc[2] = ProcEntry(TRUE, 2, TRUE, <<Device, Device>>)
    /\ proc[3] = ProcEntry(TRUE, 3, FALSE, <<>>)

\* C24: in the loop the blur strength in effect is a positive odd integer,
\* the configured value when that is odd and the value plus one when it is
\* even, whatever integer the configuration holds.
C24_BlurPositiveOdd ==
    InLoop => /\ blur_strength > 0
              /\ blur_strength % 2 = 1
              /\ blur_strength = IF config.blur % 2 = 0 THEN config.blur + 1
                                 ELSE config.blur

\* C25 (as stated): in every state in which the signal is clear and the main
\* loop is at a tick boundary, blur_active equals has_consumers, except when
\* has_consumers is true and the last capture open failed.
C25_ClearSignalMeansInSync ==
    (TickBoundary /\ ~consumer_event)
        => \/ blur_active = has_consumers
           \/ has_consumers /\ last_open = "failed"

\* C25 (amended): the same in every such state in which the watcher is not
\* between its write of has_consumers and its call of consumer_event.set().
C25_InSyncOutsideWriteSet ==
    (TickBoundary /\ ~consumer_event /\ wpc # "set")
        => \/ blur_active = has_consumers
           \/ has_consumers /\ last_open = "failed"

\* A tick boundary with no signal pending and the watcher waiting for
\* events: two consumers attached, the flag set and the daemon Active.
C25_Witness ==
    /\ TickBoundary
    /\ ~consumer_event
    /\ wpc = "read"
    /\ has_consumers
    /\ blur_active
    /\ last_open = "ok"
    /\ nOpen = 2

\* C26: no reachable state has blur_active true with an open capture handle
\* and no inference handle, and every iteration that blurred a frame read
\* from the capture had the inference handle when it did.
C26_ModelPresentWhenBlurring ==
    /\ []((blur_active /\ cap = "opened") => segmentation # 0)
    /\ [][ (pc = "frame" /\ pc' = "sleep" /\ readRes' = "ok")
              => (segmentation # 0 /\ blur_active /\ cap = "opened") ]_vars

\* The main loop, Active since this iteration, is about to read the capture
\* and compute the mask with the handle it has just created.
C26_Witness ==
    /\ pc = "frame"
    /\ transition = "toActive"
    /\ blur_active
    /\ cap = "opened"
    /\ segmentation = 1

\* C27: every step by which the main loop is left, through the stop check
\* or through an exception, leaves the stop flag set, so that the watcher
\* leaves its loop too.
C27_LoopExitSetsStop ==
    [][ (InLoop /\ pc' \in {"finally", "except"}) => stop_event' ]_vars

\* C28: a consumer that held the device before the watch was established is
\* detected without any further notification: in a state where the watcher
\* waits with nothing queued, nothing signalled and no recount ever made,
\* from which only a new notification can change has_consumers, the daemon
\* is already Active if a consumer holds the device.
C28_PreWatchConsumerDetected ==
    (Quiescent /\ consumers = -1 /\ nOpen > 0) => blur_active

====
